---- MODULE Spec2Model ----
(***************************************************************************)
(* Model of mining_sim.py: the double SHA-256 hasher (double_sha256) and   *)
(* the nonce search (mine_block).                                          *)
(*                                                                         *)
(* Scaling.  All lengths are the program's: a nonce is packed into 4       *)
(* bytes, a digest has 32 bytes, its hex form 64 digits.  What is scaled   *)
(* is the alphabet: a hex digit takes HexBase values (16 in the program)   *)
(* and a byte HexBase * HexBase values (256), so that the largest nonce    *)
(* "<I" can pack, ByteBase^4 - 1, is reached by the search loop.           *)
(* hashlib.sha256 is a library function; it is modelled by a small mixing  *)
(* function with the same signature (bytes -> 32 bytes).                   *)
(***************************************************************************)
EXTENDS Integers, Sequences, FiniteSets, TLC

\* ---------------------------------------------------------------- bounds
HexBase == 2
MaxClock == 2
MaxDataLen == 3

\* ------------------------------------------------------ program constants
NonceBytes == 4
DigestLen == 32
HexPerByte == 2

ByteBase == HexBase * HexBase
Byte == 0 .. (ByteBase - 1)
UINT_MAX == (ByteBase ^ NonceBytes) - 1
HexLen == HexPerByte * DigestLen

\* ------------------------------------------------------------- the inputs
Messages == { <<>>, <<1>>, <<3, 0, 2>> }
Difficulties == { -1, 0, 1, 2, 5, 7, HexLen + 1 }
MaxNonces == { -1, 0, 1, 6, UINT_MAX, UINT_MAX + 1 }

RECURSIVE SeqsOfLen(_)
SeqsOfLen(n) ==
    IF n = 0 THEN { <<>> }
    ELSE { Append(s, b) : s \in SeqsOfLen(n - 1), b \in Byte }

Datas == UNION { SeqsOfLen(n) : n \in 0 .. MaxDataLen }

\* ------------------------------------------------------------ the hasher
RECURSIVE Absorb(_, _)
Absorb(h, data) ==
    IF data = <<>> THEN h
    ELSE Absorb((h * 33 + Head(data) + 1) % 8191, Tail(data))

RECURSIVE Squeeze(_, _)
Squeeze(s, n) ==
    IF n = 0 THEN <<>>
    ELSE LET t == (s * 75 + 74) % 65537
         IN  <<(t \div 16) % ByteBase>> \o Squeeze(t, n - 1)

\* hashlib.sha256(data).digest()
SHA256(data) == Squeeze(Absorb(5381, data), DigestLen)

\* a hasher that makes one pass only
SingleSha256(data) == SHA256(data)

\* double_sha256(data)
double_sha256(data) == SHA256(SHA256(data))

\* bytes.hex(): two digits per byte, high digit first
hex(bytes) ==
    [ i \in 1 .. (HexPerByte * Len(bytes)) |->
        IF i % 2 = 1 THEN bytes[(i + 1) \div 2] \div HexBase
                     ELSE bytes[i \div 2] % HexBase ]

\* a target one zero longer than asked for
ZerosOneMore(n) == [ i \in 1 .. (n + 1) |-> 0 ]

\* "0" * difficulty
Zeros(n) == [ i \in 1 .. n |-> 0 ]

\* str.startswith
startswith(s, prefix) ==
    /\ Len(prefix) <= Len(s)
    /\ SubSeq(s, 1, Len(prefix)) = prefix

\* struct.pack("<I", n): defined on 0 .. UINT_MAX, struct.error elsewhere
CanPack(n) == n >= 0 /\ n <= UINT_MAX

\* the nonce packed big-endian, ">I"
pack_BigEndian(n) ==
    [ i \in 1 .. NonceBytes |-> (n \div (ByteBase ^ (NonceBytes - i))) % ByteBase ]

pack_I(n) == [ i \in 1 .. NonceBytes |-> (n \div (ByteBase ^ (i - 1))) % ByteBase ]

\* time.perf_counter(): a monotonic clock; a reading is never below an
\* earlier one
perf_counter(earlier) == earlier .. MaxClock

\* (nonce + 1) / elapsed if elapsed > 0 else float("inf"); a finite rate is
\* kept as the fraction num / den
\* the rate computed from the nonce instead of the number of attempts
hashrateOfNonce(n, elapsed) ==
    IF elapsed > 0 THEN [ inf |-> FALSE, num |-> n, den |-> elapsed ]
                   ELSE [ inf |-> TRUE, num |-> 0, den |-> 1 ]

hashrate(n, elapsed) ==
    IF elapsed > 0 THEN [ inf |-> FALSE, num |-> n + 1, den |-> elapsed ]
                   ELSE [ inf |-> TRUE, num |-> 0, den |-> 1 ]

\* the value of "return None", and the absence of a returned value (the call
\* is running, or it raised)
None == [ kind |-> "None" ]
Unset == [ kind |-> "unset" ]

\* the dict returned at lines 38-45
MiningResult(m, d, n, h, elapsed) ==
    [ kind |-> "dict", message |-> m, difficulty |-> d, nonce |-> n,
      hash |-> h, elapsed_seconds |-> elapsed,
      hashrate_hps |-> hashrate(n, elapsed) ]

\* range(max_nonce + 1): first value, successor, and the test for its end
\* a search that resumes where the previous call stopped
RangeStartKept(prev) == prev
\* a search that tries every other nonce
RangeStepSkip(n) == n + 2

RangeStart(prev) == 0

RangeStep(n) == n + 1

RangeHas(n, mx) == n < mx + 1

\* a check that lets -1 through
InvalidDifficultyBelow(d) == d < -1

\* line 26
InvalidDifficulty(d) == d < 0

\* ------------------------------------------------------------- the state
VARIABLES
    pc,             \* Idle, Searching, Found, Exhausted, ValueError, StructError
    message, difficulty, max_nonce,     \* the arguments of the call
    target_prefix, start_time,          \* locals, lines 29-30
    range_it,       \* the next value range(max_nonce + 1) yields
    payload, hash_hex,                  \* locals, lines 33-34
    result,         \* the value returned
    attempts,       \* calls of double_sha256 made by this call of mine_block
    data, digest    \* argument and value of a direct call of double_sha256;
                    \* digest is <<>> until the call is made

minerVars == << pc, message, difficulty, max_nonce, target_prefix, start_time,
                range_it, payload, hash_hex, result, attempts >>
hasherVars == << data, digest >>
vars == << pc, message, difficulty, max_nonce, target_prefix, start_time,
           range_it, payload, hash_hex, result, attempts, data, digest >>

Terminal == { "Found", "Exhausted", "ValueError", "StructError" }

Init ==
    /\ pc = "Idle"
    /\ message = <<>>
    /\ difficulty = 0
    /\ max_nonce = 0
    /\ target_prefix = <<>>
    /\ start_time = 0
    /\ range_it = 0
    /\ payload = <<>>
    /\ hash_hex = <<>>
    /\ result = Unset
    /\ attempts = 0
    /\ data = <<>>
    /\ digest = <<>>

\* mine_block is entered: lines 26-30 and the creation of the range
Call(m, d, mx) ==
    /\ pc \in Terminal \cup { "Idle" }
    /\ message' = m
    /\ difficulty' = d
    /\ max_nonce' = mx
    /\ payload' = <<>>
    /\ hash_hex' = <<>>
    /\ result' = Unset
    /\ attempts' = 0
    /\ IF InvalidDifficulty(d)
       THEN /\ pc' = "ValueError"
            /\ target_prefix' = <<>>
            /\ start_time' = 0
            /\ range_it' = 0
       ELSE /\ pc' = "Searching"
            /\ target_prefix' = Zeros(d)
            /\ start_time' \in perf_counter(0)
            /\ range_it' = RangeStart(range_it)
    /\ UNCHANGED hasherVars

\* one iteration of the loop, lines 32-45
Iterate ==
    /\ pc = "Searching"
    /\ RangeHas(range_it, max_nonce)
    /\ range_it' = RangeStep(range_it)
    /\ IF ~CanPack(range_it)
       THEN /\ pc' = "StructError"
            /\ UNCHANGED << payload, hash_hex, result, attempts >>
       ELSE LET p == message \o pack_I(range_it)
                h == hex(double_sha256(p))
            IN  /\ payload' = p
                /\ hash_hex' = h
                /\ attempts' = attempts + 1
                /\ IF startswith(h, target_prefix)
                   THEN /\ pc' = "Found"
                        /\ \E t \in perf_counter(start_time) :
                             result' = MiningResult(message, difficulty, range_it,
                                                    h, t - start_time)
                   ELSE /\ pc' = "Searching"
                        /\ UNCHANGED result
    /\ UNCHANGED << message, difficulty, max_nonce, target_prefix, start_time >>
    /\ UNCHANGED hasherVars

\* the range is used up: line 47
Exhaust ==
    /\ pc = "Searching"
    /\ ~RangeHas(range_it, max_nonce)
    /\ pc' = "Exhausted"
    /\ result' = None
    /\ UNCHANGED << message, difficulty, max_nonce, target_prefix, start_time,
                    range_it, payload, hash_hex, attempts >>
    /\ UNCHANGED hasherVars

Next ==
    \/ \E m \in Messages, d \in Difficulties, mx \in MaxNonces : Call(m, d, mx)
    \/ Iterate
    \/ Exhaust

Spec == Init /\ [][Next]_vars

\* ------------------------------------------------- the hasher by itself
InitHasher ==
    /\ pc = "Idle"
    /\ message = <<>>
    /\ difficulty = 0
    /\ max_nonce = 0
    /\ target_prefix = <<>>
    /\ start_time = 0
    /\ range_it = 0
    /\ payload = <<>>
    /\ hash_hex = <<>>
    /\ result = Unset
    /\ attempts = 0
    /\ data \in Datas
    /\ digest = <<>>

\* a direct call of double_sha256, lines 12-13
Digest ==
    /\ digest' = double_sha256(data)
    /\ UNCHANGED data
    /\ UNCHANGED minerVars

NextHasher == Digest

SpecHasher == InitHasher /\ [][NextHasher]_vars

\* ============================================================ the claims
\* The target and the payload of a nonce, derived again from the arguments
\* alone: 4 bytes, least significant first, after the message.
LittleEndian4(n) ==
    << n % ByteBase,
       (n \div ByteBase) % ByteBase,
       (n \div (ByteBase * ByteBase)) % ByteBase,
       (n \div (ByteBase * ByteBase * ByteBase)) % ByteBase >>

DigestHexOf(m, n) == hex(SHA256(SHA256(m \o LittleEndian4(n))))

AllZero(s, k) == k <= Len(s) /\ \A i \in 1 .. k : s[i] = 0

Satisfies(m, d, n) == AllZero(DigestHexOf(m, n), d)

\* C1 (minimality): when mine_block returns a result with nonce N, no nonce
\* below N gives a digest whose hex starts with `difficulty` zeros, and N
\* itself is a nonce of [0, max_nonce] that does: N is the smallest one.
C1_Minimality ==
    pc = "Found" =>
        /\ result.nonce \in 0 .. max_nonce
        /\ Satisfies(message, difficulty, result.nonce)
        /\ \A n \in 0 .. (result.nonce - 1) : ~Satisfies(message, difficulty, n)

C1_Witness ==
    /\ pc = "Found"
    /\ result.nonce >= 2
    /\ difficulty >= 1

\* C2 (soundness of a found result): the nonce lies in [0, max_nonce], the
\* hash field is the hex of the double hash of message followed by the nonce
\* in 4 little-endian bytes, its first `difficulty` digits are zero, and the
\* message and difficulty fields are the arguments of the call.
C2_Soundness ==
    pc = "Found" =>
        /\ result.kind = "dict"
        /\ result.nonce \in 0 .. max_nonce
        /\ result.hash = DigestHexOf(message, result.nonce)
        /\ Len(result.hash) = HexLen
        /\ AllZero(result.hash, difficulty)
        /\ result.message = message
        /\ result.difficulty = difficulty

C2_Witness ==
    /\ pc = "Found"
    /\ result.nonce >= 4
    /\ difficulty >= 2
    /\ message # <<>>

\* the nonces of [0, max_nonce] the search can hand to the hasher
NoneSatisfies(m, d, mx) == \A n \in 0 .. mx : ~Satisfies(m, d, n)

\* C3 (exhaustion is exact): a call with difficulty >= 0 ends in not-found
\* exactly when no nonce of [0, max_nonce] satisfies the target, not-found
\* comes only after every nonce of the range was examined, and a difficulty
\* above the number of hex digits of the digest always ends in not-found.
C3_ExhaustionExact ==
    /\ pc = "Exhausted" =>
          /\ result = None
          /\ attempts = Cardinality(0 .. max_nonce)
          /\ NoneSatisfies(message, difficulty, max_nonce)
    /\ (pc \in Terminal /\ difficulty >= 0) =>
          (pc = "Exhausted" <=> NoneSatisfies(message, difficulty, max_nonce))
    /\ (pc \in Terminal /\ difficulty > HexLen) => pc = "Exhausted"

\* C4 (negative difficulty): a call with difficulty < 0 ends with the
\* ValueError before any work: no payload is built, the hasher is not
\* invoked, and neither a result nor not-found is returned.
C4_NegativeDifficulty ==
    /\ difficulty < 0 =>
          /\ pc = "ValueError"
          /\ attempts = 0
          /\ payload = <<>>
          /\ hash_hex = <<>>
          /\ result = Unset
    /\ pc = "ValueError" => difficulty < 0

C4_Witness ==
    /\ pc = "ValueError"
    /\ difficulty < 0
    /\ message # <<>>
    /\ max_nonce > 0

\* C5 (the only error): a call with difficulty >= 0 ends with a result or
\* with not-found and never with an error, whatever max_nonce is.
C5_OnlyValueError ==
    (pc \in Terminal /\ difficulty >= 0) =>
        \/ pc = "Found" /\ result.kind = "dict"
        \/ pc = "Exhausted" /\ result = None

\* C6 as stated (difficulty 0): for every max_nonce the call returns a
\* result with nonce 0 after exactly one digest.
C6_AsStated ==
    (pc \in Terminal /\ difficulty = 0) =>
        /\ pc = "Found"
        /\ result.nonce = 0
        /\ attempts = 1

\* C6 (difficulty 0), amended: for every max_nonce >= 0 the call returns a
\* result with nonce 0, and exactly one digest is computed; no digest is
\* computed after the first.
C6_DifficultyZero ==
    (difficulty = 0 /\ max_nonce >= 0) =>
        /\ pc \in Terminal => (pc = "Found" /\ result.nonce = 0 /\ attempts = 1)
        /\ pc = "Searching" => attempts = 0

C6_Witness ==
    /\ pc = "Found"
    /\ difficulty = 0
    /\ max_nonce > 0
    /\ message # <<>>
    /\ attempts = 1

\* C7 (termination): a search leaves Searching only for Found or Exhausted,
\* after at most max_nonce + 1 iterations.
C7_Terminates ==
    [][ pc = "Searching" =>
          /\ pc' \in { "Searching", "Found", "Exhausted" }
          /\ attempts' <= max_nonce + 1 ]_vars

\* C8 (double hash): for every payload, the empty one included,
\* double_sha256(payload) is the single hash applied to the 32-byte single
\* hash of the payload, and it has 32 bytes.
C8_DoubleHash ==
    digest # <<>> =>
        /\ digest = SHA256(SHA256(data))
        /\ Len(SHA256(data)) = DigestLen
        /\ Len(digest) = DigestLen
        /\ \A i \in 1 .. Len(digest) : digest[i] \in Byte

C8_Witness ==
    /\ digest # <<>>
    /\ data = <<>>

\* C9 (hash rate): in a found result elapsed_seconds is not negative,
\* hashrate_hps is (nonce + 1) / elapsed_seconds when that is positive and
\* infinity when it is zero, and nonce + 1 is the number of digests the call
\* computed.
C9_Hashrate ==
    pc = "Found" =>
        /\ result.elapsed_seconds >= 0
        /\ result.elapsed_seconds > 0 =>
              /\ ~result.hashrate_hps.inf
              /\ result.hashrate_hps.num * result.elapsed_seconds
                    = (result.nonce + 1) * result.hashrate_hps.den
        /\ result.elapsed_seconds = 0 => result.hashrate_hps.inf
        /\ attempts = result.nonce + 1

C9_Witness ==
    /\ pc = "Found"
    /\ result.elapsed_seconds > 0
    /\ result.nonce >= 2

\* C10 (order of attempts): in every call the i-th digest is computed for
\* nonce i - 1, whatever calls came before; the count of digests grows by
\* one at a time from 0, and ends at the returned nonce + 1 when a result is
\* found and at max_nonce + 1 on exhaustion.
C10_OrderState ==
    /\ attempts > 0 => payload = message \o LittleEndian4(attempts - 1)
    /\ pc = "Found" => attempts = result.nonce + 1
    /\ pc = "Exhausted" => attempts = Cardinality(0 .. max_nonce)
    /\ (max_nonce = 0 /\ pc \in { "Found", "Exhausted" }) => attempts = 1

C10_OrderStep ==
    \/ attempts' = attempts /\ payload' = payload
    \/ /\ attempts' = attempts + 1
       /\ payload' = message \o LittleEndian4(attempts)
       /\ message' = message
    \/ pc # "Searching" /\ attempts' = 0

C10_Order == []C10_OrderState /\ [][C10_OrderStep]_vars

C10_Witness ==
    /\ pc = "Exhausted"
    /\ attempts >= 3
    /\ message # <<>>

====
